---- MODULE Spec2Model ----
(***************************************************************************)
(* Railway reservation MCP server (mcp-server.py).                         *)
(*                                                                         *)
(* The program answers one query, check_seat_availability, either through  *)
(* the MCP tool dispatcher handle_call_tool (when the mcp library imports) *)
(* or once from main() in standalone demo mode.  The state is the import   *)
(* flag, the wall clock read by datetime.now(), the tool calls in flight,  *)
(* the dictionaries check_seat_availability returned, the handler          *)
(* outcomes and the lines printed on standard output.                      *)
(***************************************************************************)
EXTENDS Integers, Sequences, FiniteSets, TLC

VARIABLES
  MCP_AVAILABLE,  \* whether the mcp import succeeded
  now,            \* the wall clock, as datetime.now() reads it
  requests,       \* id -> the tools/call request the server received
  inbox,          \* ids of the requests not yet handled
  nextId,         \* id of the next request
  called,         \* id -> the arguments check_seat_availability was called with
  returned,       \* id -> the dictionary check_seat_availability returned
  replies,        \* id -> the outcome of handle_call_tool
  stdout,         \* the lines printed
  pc              \* position of main(): "main" or "done"

vars ==
  <<MCP_AVAILABLE, now, requests, inbox, nextId, called, returned, replies,
    stdout, pc>>

(***************************************************************************)
(* Bounds of the exploration.                                              *)
(***************************************************************************)
MaxCalls == 2
MaxClock == 2
MaxHours == 13

(***************************************************************************)
(* Inputs a client can send.                                               *)
(***************************************************************************)
ToolNames == {"check_seat_availability", "book_ticket"}
TravelDates == {"2025-07-15"}
TravelClasses == {"AC2", "Sleeper"}

\* a train runs from one station to another
Trains ==
  {[name |-> "Rajdhani Express", start |-> "NDLS", end |-> "BCT"],
   [name |-> "Mail Express", start |-> "BCT", end |-> "NDLS"]}

ArgumentKeys ==
  <<"train_name", "travel_date", "start_station", "end_station", "travel_class">>

MakeArguments(t, d, s, e, c) ==
  [k \in {ArgumentKeys[i] : i \in 1..5} |->
     CASE k = "train_name" -> t
       [] k = "travel_date" -> d
       [] k = "start_station" -> s
       [] k = "end_station" -> e
       [] k = "travel_class" -> c]

FullArguments ==
  {MakeArguments(t.name, d, t.start, t.end, c) :
     t \in Trains, d \in TravelDates, c \in TravelClasses}

Without(args, key) == [k \in (DOMAIN args) \ {key} |-> args[k]]

SampleArguments ==
  MakeArguments("Rajdhani Express", "2025-07-15", "NDLS", "BCT", "AC2")

\* dictionaries that lack keys the handler subscripts: the last one, or all
PartialArguments ==
  {Without(SampleArguments, "travel_class"), << >>}

ArgumentDicts == FullArguments \cup PartialArguments

\* the tools/call requests: the tool with every dictionary, and a tool the
\* server does not have with a complete and an incomplete dictionary
ToolCalls ==
  {[name |-> "check_seat_availability", arguments |-> a] : a \in ArgumentDicts}
    \cup {[name |-> n, arguments |-> a] :
            n \in ToolNames \ {"check_seat_availability"},
            a \in {SampleArguments, Without(SampleArguments, "travel_class")}}

(***************************************************************************)
(* datetime.now().strftime("%Y-%m-%d %H:%M:%S"); the clock counts seconds  *)
(* from midnight of one day.                                               *)
(***************************************************************************)
Pad2(n) == IF n < 10 THEN "0" \o ToString(n) ELSE ToString(n)

Strftime(t) ==
  "2025-07-01 " \o Pad2((t \div 3600) % 24) \o ":" \o Pad2((t \div 60) % 60)
                \o ":" \o Pad2(t % 60)

(***************************************************************************)
(* The literals of the sample availability data.                           *)
(***************************************************************************)
\* a berth count that exceeds the berth total
BerthAvailability_overcount ==
  [upper  |-> [total |-> 24, available |-> 26, price |-> 1250],
   middle |-> [total |-> 24, available |-> 4, price |-> 1275],
   lower  |-> [total |-> 24, available |-> 8, price |-> 1300]]

BerthAvailability ==
  [upper  |-> [total |-> 24, available |-> 6, price |-> 1250],
   middle |-> [total |-> 24, available |-> 4, price |-> 1275],
   lower  |-> [total |-> 24, available |-> 8, price |-> 1300]]

\* the two branches of the status expression exchanged
StatusFlag_flipped == IF 18 > 0 THEN "Waiting List" ELSE "Available"

StatusFlag == IF 18 > 0 THEN "Available" ELSE "Waiting List"

\* a class total that was not updated with the berth totals
ClassEntry_stale ==
  [total_seats |-> 64,
   available_seats |-> 18,
   waiting_list |-> 5,
   berth_availability |-> BerthAvailability,
   status |-> StatusFlag,
   base_fare |-> 1200,
   booking_status |-> "OPEN"]

ClassEntry ==
  [total_seats |-> 72,
   available_seats |-> 18,
   waiting_list |-> 5,
   berth_availability |-> BerthAvailability,
   status |-> StatusFlag,
   base_fare |-> 1200,
   booking_status |-> "OPEN"]

CancellationCharges ==
  ("upto_4_hours" :> "25% of fare")
    @@ ("4_to_12_hours" :> "50% of fare")
    @@ ("after_12_hours" :> "No refund")

AlternateOptions(travel_class) ==
  << [train_name |-> "Shatabdi Express", train_number |-> "12002",
      departure_time |-> "10:15", available_seats |-> 32,
      class |-> travel_class],
     [train_name |-> "Mail Express", train_number |-> "12003",
      departure_time |-> "16:30", available_seats |-> 45,
      class |-> travel_class] >>

\* the two stations of the route exchanged
check_seat_availability_swapped(train_name, travel_date, start_station, end_station, travel_class, t) ==
  [train_details |->
     [train_name |-> train_name,
      train_number |-> "12001",
      travel_date |-> travel_date,
      route |-> [start_station |-> end_station,
                 end_station |-> start_station,
                 departure_time |-> "08:30",
                 arrival_time |-> "14:45",
                 duration |-> "6h 15m"]],
   class_availability |-> (travel_class :> ClassEntry),
   additional_info |->
     [tatkal_available |-> TRUE,
      premium_tatkal_available |-> FALSE,
      cancellation_charges |-> CancellationCharges,
      booking_counter |-> "IRCTC Online",
      last_updated |-> Strftime(t)],
   alternate_options |-> AlternateOptions(travel_class)]

(***************************************************************************)
(* check_seat_availability: the dictionary built and returned for the five *)
(* arguments, with the clock value t read by datetime.now().               *)
(***************************************************************************)
check_seat_availability(train_name, travel_date, start_station, end_station, travel_class, t) ==
  [train_details |->
     [train_name |-> train_name,
      train_number |-> "12001",
      travel_date |-> travel_date,
      route |-> [start_station |-> start_station,
                 end_station |-> end_station,
                 departure_time |-> "08:30",
                 arrival_time |-> "14:45",
                 duration |-> "6h 15m"]],
   class_availability |-> (travel_class :> ClassEntry),
   additional_info |->
     [tatkal_available |-> TRUE,
      premium_tatkal_available |-> FALSE,
      cancellation_charges |-> CancellationCharges,
      booking_counter |-> "IRCTC Online",
      last_updated |-> Strftime(t)],
   alternate_options |-> AlternateOptions(travel_class)]

(***************************************************************************)
(* json.dumps(result, indent=2, ensure_ascii=False): the text of the       *)
(* dictionary, keys in insertion order, two spaces per nesting level.      *)
(* Floats print with their fraction (1250.0), booleans as true and false.  *)
(***************************************************************************)
Quote(s) == "\"" \o s \o "\""

Float(n) == ToString(n) \o ".0"

Bool(b) == IF b THEN "true" ELSE "false"

RECURSIVE Indent(_)
Indent(n) == IF n = 0 THEN "" ELSE "  " \o Indent(n - 1)

\* one "key": value member; last tells whether a comma follows
Member(n, key, value, last) ==
  Indent(n) \o Quote(key) \o ": " \o value \o (IF last THEN "" ELSE ",") \o "\n"

Open(n, key) == Indent(n) \o Quote(key) \o ": {\n"

Close(n, last) == Indent(n) \o "}" \o (IF last THEN "" ELSE ",") \o "\n"

DumpBerth(n, key, b, last) ==
  Open(n, key)
    \o Member(n + 1, "total", ToString(b.total), FALSE)
    \o Member(n + 1, "available", ToString(b.available), FALSE)
    \o Member(n + 1, "price", Float(b.price), TRUE)
    \o Close(n, last)

DumpClass(n, key, c) ==
  Open(n, key)
    \o Member(n + 1, "total_seats", ToString(c.total_seats), FALSE)
    \o Member(n + 1, "available_seats", ToString(c.available_seats), FALSE)
    \o Member(n + 1, "waiting_list", ToString(c.waiting_list), FALSE)
    \o Open(n + 1, "berth_availability")
    \o DumpBerth(n + 2, "upper", c.berth_availability.upper, FALSE)
    \o DumpBerth(n + 2, "middle", c.berth_availability.middle, FALSE)
    \o DumpBerth(n + 2, "lower", c.berth_availability.lower, TRUE)
    \o Close(n + 1, FALSE)
    \o Member(n + 1, "status", Quote(c.status), FALSE)
    \o Member(n + 1, "base_fare", Float(c.base_fare), FALSE)
    \o Member(n + 1, "booking_status", Quote(c.booking_status), TRUE)
    \o Close(n, TRUE)

DumpOption(n, o, last) ==
  Indent(n) \o "{\n"
    \o Member(n + 1, "train_name", Quote(o.train_name), FALSE)
    \o Member(n + 1, "train_number", Quote(o.train_number), FALSE)
    \o Member(n + 1, "departure_time", Quote(o.departure_time), FALSE)
    \o Member(n + 1, "available_seats", ToString(o.available_seats), FALSE)
    \o Member(n + 1, "class", Quote(o.class), TRUE)
    \o Close(n, last)

JsonDumps(result) ==
  LET td == result.train_details
      ai == result.additional_info
      cc == ai.cancellation_charges
      cls == CHOOSE k \in DOMAIN result.class_availability : TRUE
  IN "{\n"
     \o Open(1, "train_details")
     \o Member(2, "train_name", Quote(td.train_name), FALSE)
     \o Member(2, "train_number", Quote(td.train_number), FALSE)
     \o Member(2, "travel_date", Quote(td.travel_date), FALSE)
     \o Open(2, "route")
     \o Member(3, "start_station", Quote(td.route.start_station), FALSE)
     \o Member(3, "end_station", Quote(td.route.end_station), FALSE)
     \o Member(3, "departure_time", Quote(td.route.departure_time), FALSE)
     \o Member(3, "arrival_time", Quote(td.route.arrival_time), FALSE)
     \o Member(3, "duration", Quote(td.route.duration), TRUE)
     \o Close(2, TRUE)
     \o Close(1, FALSE)
     \o Open(1, "class_availability")
     \o DumpClass(2, cls, result.class_availability[cls])
     \o Close(1, FALSE)
     \o Open(1, "additional_info")
     \o Member(2, "tatkal_available", Bool(ai.tatkal_available), FALSE)
     \o Member(2, "premium_tatkal_available",
               Bool(ai.premium_tatkal_available), FALSE)
     \o Open(2, "cancellation_charges")
     \o Member(3, "upto_4_hours", Quote(cc["upto_4_hours"]), FALSE)
     \o Member(3, "4_to_12_hours", Quote(cc["4_to_12_hours"]), FALSE)
     \o Member(3, "after_12_hours", Quote(cc["after_12_hours"]), TRUE)
     \o Close(2, FALSE)
     \o Member(2, "booking_counter", Quote(ai.booking_counter), FALSE)
     \o Member(2, "last_updated", Quote(ai.last_updated), TRUE)
     \o Close(1, FALSE)
     \o Indent(1) \o Quote("alternate_options") \o ": [\n"
     \o DumpOption(2, result.alternate_options[1], FALSE)
     \o DumpOption(2, result.alternate_options[2], TRUE)
     \o Indent(1) \o "]\n"
     \o "}"

(***************************************************************************)
(* Initial state: the module has been imported.  The mcp import either     *)
(* succeeded or failed; on failure the two notices are already printed.    *)
(***************************************************************************)
Init ==
  /\ MCP_AVAILABLE \in BOOLEAN
  /\ now = 0
  /\ requests = << >>
  /\ inbox = {}
  /\ nextId = 1
  /\ called = << >>
  /\ returned = << >>
  /\ replies = << >>
  /\ stdout = IF MCP_AVAILABLE
                THEN << >>
                ELSE << "MCP library not found. Running in standalone mode.",
                        "To use as MCP server, install with: pip install mcp" >>
  /\ pc = "main"

\* the wall clock advances between any two steps
Tick ==
  /\ now < MaxClock
  /\ now' = now + 1
  /\ UNCHANGED <<MCP_AVAILABLE, requests, inbox, nextId, called, returned,
                 replies, stdout, pc>>

\* server.run delivers a tools/call request of a client to the handler
Receive(name, arguments) ==
  /\ MCP_AVAILABLE
  /\ nextId <= MaxCalls
  /\ requests' = requests @@ (nextId :> [name |-> name, arguments |-> arguments])
  /\ inbox' = inbox \cup {nextId}
  /\ nextId' = nextId + 1
  /\ UNCHANGED <<MCP_AVAILABLE, now, called, returned, replies, stdout, pc>>

\* the first key, in subscript order, that the dictionary lacks (0: none)
FirstMissing(arguments) ==
  IF \A i \in 1..5 : ArgumentKeys[i] \in DOMAIN arguments
    THEN 0
    ELSE CHOOSE i \in 1..5 :
           /\ ArgumentKeys[i] \notin DOMAIN arguments
           /\ \A j \in 1..(i - 1) : ArgumentKeys[j] \in DOMAIN arguments

\* the parameters of one call of check_seat_availability
Parameters(t, d, s, e, c) ==
  [train_name |-> t, travel_date |-> d, start_station |-> s,
   end_station |-> e, travel_class |-> c]

\* one dictionary shared by all calls: each call rewrites what was returned before
Return_shared(results, id, result) ==
  [i \in (DOMAIN results) \cup {id} |-> result]

\* every call builds a new dictionary: the ones returned before stay as they are
Return(results, id, result) == results @@ (id :> result)

\* a test that takes every tool name for check_seat_availability
IsCheckSeatAvailability_any(name) == name = name

\* the test of the tool name
IsCheckSeatAvailability(name) == name = "check_seat_availability"

(***************************************************************************)
(* handle_call_tool: the handler runs without a suspension point, so one   *)
(* call is one step.                                                       *)
(***************************************************************************)
handle_call_tool(id) ==
  LET name == requests[id].name
      arguments == requests[id].arguments
  IN
  /\ MCP_AVAILABLE
  /\ id \in inbox
  /\ inbox' = inbox \ {id}
  /\ IF IsCheckSeatAvailability(name)
       THEN IF FirstMissing(arguments) = 0
              THEN LET result ==
                         check_seat_availability(
                           arguments["train_name"],
                           arguments["travel_date"],
                           arguments["start_station"],
                           arguments["end_station"],
                           arguments["travel_class"], now)
                   IN /\ called' = called @@
                           (id :> Parameters(arguments["train_name"],
                                             arguments["travel_date"],
                                             arguments["start_station"],
                                             arguments["end_station"],
                                             arguments["travel_class"]))
                      /\ returned' = Return(returned, id, result)
                      /\ replies' = replies @@
                           (id :> [raised |-> "none", message |-> "",
                                   content |-> << [type |-> "text",
                                                   text |-> JsonDumps(result)] >>])
              ELSE /\ replies' = replies @@
                        (id :> [raised |-> "KeyError",
                                message |-> ArgumentKeys[FirstMissing(arguments)],
                                content |-> << >>])
                   /\ UNCHANGED <<called, returned>>
       ELSE /\ replies' = replies @@
                 (id :> [raised |-> "ValueError",
                         message |-> "Unknown tool: " \o name,
                         content |-> << >>])
            /\ UNCHANGED <<called, returned>>
  /\ UNCHANGED <<MCP_AVAILABLE, now, requests, nextId, stdout, pc>>

(***************************************************************************)
(* main() in standalone mode: one query with the sample parameters, its    *)
(* result printed as JSON.  The call is recorded under id 0.               *)
(***************************************************************************)
StandaloneDemo ==
  /\ ~MCP_AVAILABLE
  /\ pc = "main"
  /\ LET availability ==
           check_seat_availability("Rajdhani Express", "2025-07-15",
                                   "New Delhi (NDLS)", "Mumbai Central (BCT)",
                                   "AC2", now)
     IN /\ called' = called @@
             (0 :> Parameters("Rajdhani Express", "2025-07-15",
                              "New Delhi (NDLS)", "Mumbai Central (BCT)", "AC2"))
        /\ returned' = Return(returned, 0, availability)
        /\ stdout' = stdout \o
             << "=== Railway Reservation System - Standalone Demo ===",
                "",
                "Checking seat availability for:",
                "Train: Rajdhani Express",
                "Date: 2025-07-15",
                "Route: New Delhi (NDLS) → Mumbai Central (BCT)",
                "Class: AC2",
                "--------------------------------------------------",
                JsonDumps(availability) >>
  /\ pc' = "done"
  /\ UNCHANGED <<MCP_AVAILABLE, now, requests, inbox, nextId, replies>>

Next ==
  \/ Tick
  \/ \E call \in ToolCalls : Receive(call.name, call.arguments)
  \/ \E id \in inbox : handle_call_tool(id)
  \/ StandaloneDemo

Spec == Init /\ [][Next]_vars

TypeOK ==
  /\ MCP_AVAILABLE \in BOOLEAN
  /\ now \in 0..MaxClock
  /\ nextId \in 1..(MaxCalls + 1)
  /\ inbox \subseteq DOMAIN requests
  /\ DOMAIN returned = DOMAIN called
  /\ pc \in {"main", "done"}

(***************************************************************************)
(* Properties.                                                             *)
(***************************************************************************)

\* a returned dictionary without its timestamp
Timeless(result) ==
  [result EXCEPT !.additional_info.last_updated = ""]

\* the requests that name the tool and supply its five arguments
WellFormed(id) ==
  /\ requests[id].name = "check_seat_availability"
  /\ \A i \in 1..5 : ArgumentKeys[i] \in DOMAIN requests[id].arguments

\* C1: check_seat_availability is read-only and idempotent: a step in which
\* a call returns leaves the import flag, the clock, the requests and every
\* dictionary and reply produced before unchanged, and any two calls with
\* equal arguments report the same class availability, whatever ran between.
C1_ReadOnly ==
  /\ [][(DOMAIN returned' # DOMAIN returned) =>
          /\ MCP_AVAILABLE' = MCP_AVAILABLE
          /\ now' = now
          /\ requests' = requests
          /\ \A i \in DOMAIN returned : returned'[i] = returned[i]
          /\ \A i \in DOMAIN called : called'[i] = called[i]
          /\ \A i \in DOMAIN replies : replies'[i] = replies[i]]_vars
  /\ [](\A i, j \in DOMAIN returned :
          called[i] = called[j] =>
            returned[i].class_availability = returned[j].class_availability)

\* two calls with equal arguments have both returned, one after the other
C1_Witness ==
  /\ {1, 2} \subseteq DOMAIN returned
  /\ called[1] = called[2]

\* C2: in every returned snapshot the status of the class is "Available"
\* exactly when its available seat count is above 0 and "Waiting List"
\* otherwise, and a well-formed query is answered without an error.
C2_StatusFlag ==
  /\ \A i \in DOMAIN returned :
       \A c \in DOMAIN returned[i].class_availability :
         LET entry == returned[i].class_availability[c]
         IN /\ (entry.status = "Available") <=> (entry.available_seats > 0)
            /\ (entry.status = "Waiting List") <=> ~(entry.available_seats > 0)
  /\ \A i \in DOMAIN replies : WellFormed(i) => replies[i].raised = "none"

C2_Witness ==
  \E i \in DOMAIN replies :
    /\ i \in DOMAIN returned
    /\ replies[i].raised = "none"
    /\ \E c \in DOMAIN returned[i].class_availability :
         /\ returned[i].class_availability[c].available_seats > 0
         /\ returned[i].class_availability[c].status = "Available"

\* booked is not reported: it is what total and available leave
Booked(record) == record.total - record.available

BerthTypes == {"upper", "middle", "lower"}

\* C3: in every snapshot reported to a caller, for every berth type
\* 0 <= booked <= total and 0 <= available <= total with
\* available = total - booked, and the same for the class as a whole.
C3_Counts ==
  \A i \in DOMAIN returned :
    \A c \in DOMAIN returned[i].class_availability :
      LET entry == returned[i].class_availability[c]
      IN /\ \A b \in BerthTypes :
              LET record == entry.berth_availability[b]
              IN /\ 0 <= Booked(record) /\ Booked(record) <= record.total
                 /\ 0 <= record.available /\ record.available <= record.total
                 /\ record.available = record.total - Booked(record)
         /\ 0 <= entry.available_seats
         /\ entry.available_seats <= entry.total_seats

C3_Witness ==
  \E i \in DOMAIN returned :
    \E c \in DOMAIN returned[i].class_availability :
      \E b \in BerthTypes :
        LET record == returned[i].class_availability[c].berth_availability[b]
        IN 0 < Booked(record) /\ Booked(record) < record.total

\* the refund tiers: the share of the fare retained for a cancellation made
\* h hours before departure
RetainedPercent(h) ==
  IF h >= 12 THEN 0 ELSE IF h >= 4 THEN 50 ELSE 75

\* the share of the fare a cancellation-charge text stands for
ChargePercent(text) ==
  CASE text = "No charge" -> 0
    [] text = "25% of fare" -> 25
    [] text = "50% of fare" -> 50
    [] text = "75% of fare" -> 75
    [] text = "No refund" -> 100

\* the advertised charge for a cancellation h hours before departure
AdvertisedPercent(charges, h) ==
  IF h >= 12 THEN ChargePercent(charges["after_12_hours"])
  ELSE IF h >= 4 THEN ChargePercent(charges["4_to_12_hours"])
  ELSE ChargePercent(charges["upto_4_hours"])

\* C7: the cancellation charge is 0% of the fare at 12 hours or more before
\* departure, 50% from 4 to 12 hours and 75% under 4 hours, and the
\* cancellation_charges of every availability response state these tiers.
C7_RefundTiers ==
  \A i \in DOMAIN returned :
    \A h \in 0..MaxHours :
      AdvertisedPercent(returned[i].additional_info.cancellation_charges, h)
        = RetainedPercent(h)

\* C8: a handled call named check_seat_availability with its five arguments
\* returns exactly one text result, the JSON text of the snapshot for those
\* arguments; a call with any other name raises ValueError "Unknown tool",
\* runs no query and produces no result.
C8_Dispatch ==
  \A id \in DOMAIN replies :
    LET request == requests[id]
        reply == replies[id]
    IN /\ WellFormed(id) =>
            /\ reply.raised = "none"
            /\ Len(reply.content) = 1
            /\ reply.content[1].type = "text"
            /\ id \in DOMAIN returned
            /\ \A i \in 1..5 :
                 called[id][ArgumentKeys[i]] = request.arguments[ArgumentKeys[i]]
            /\ reply.content[1].text = JsonDumps(returned[id])
       /\ request.name # "check_seat_availability" =>
            /\ reply.raised = "ValueError"
            /\ reply.message = "Unknown tool: " \o request.name
            /\ reply.content = << >>
            /\ id \notin DOMAIN returned
            /\ id \notin DOMAIN called

\* both a served query and a rejected unknown tool
C8_Witness ==
  \E i, j \in DOMAIN replies :
    /\ WellFormed(i)
    /\ replies[i].raised = "none"
    /\ requests[j].name = "book_ticket"
    /\ replies[j].raised = "ValueError"

\* C9: a returned snapshot carries the given train_name, travel_date,
\* start_station and end_station unchanged, class_availability has exactly
\* one entry, keyed by the given travel_class, and two calls with equal
\* arguments return snapshots that differ at most in last_updated.
C9_DescribesQuery ==
  \A i \in DOMAIN returned :
    LET given == called[i]
        result == returned[i]
    IN /\ result.train_details.train_name = given.train_name
       /\ result.train_details.travel_date = given.travel_date
       /\ result.train_details.route.start_station = given.start_station
       /\ result.train_details.route.end_station = given.end_station
       /\ DOMAIN result.class_availability = {given.travel_class}
       /\ \A j \in DOMAIN returned :
            called[j] = given => Timeless(returned[j]) = Timeless(result)

\* two calls with equal arguments returned at different times
C9_Witness ==
  \E i, j \in DOMAIN returned :
    /\ i # j
    /\ called[i] = called[j]
    /\ called[i].start_station # called[i].end_station
    /\ returned[i].additional_info.last_updated
         # returned[j].additional_info.last_updated

\* C10: in every returned snapshot total_seats is the sum of the upper,
\* middle and lower berth totals and available_seats the sum of the upper,
\* middle and lower berth available counts.
C10_ClassSums ==
  \A i \in DOMAIN returned :
    \A c \in DOMAIN returned[i].class_availability :
      LET entry == returned[i].class_availability[c]
          berth == entry.berth_availability
      IN /\ entry.total_seats
              = berth.upper.total + berth.middle.total + berth.lower.total
         /\ entry.available_seats
              = berth.upper.available + berth.middle.available
                  + berth.lower.available

C10_Witness ==
  \E i \in DOMAIN returned :
    \E c \in DOMAIN returned[i].class_availability :
      /\ returned[i].class_availability[c].total_seats = 72
      /\ returned[i].class_availability[c].available_seats = 18

====
